---- MODULE Spec2Model ----
(***************************************************************************)
(* Credit scoring engine of backend/scoring.py with its callers            *)
(* backend/main.py (POST /score), backend/train_model.py and               *)
(* backend/start.py.                                                       *)
(*                                                                         *)
(* Three specifications share the module:                                  *)
(*   Spec         the model store and the scoring service: the scoring     *)
(*                calls of one server process and the training script      *)
(*                race on the two artifact files;                          *)
(*   SpecRecord   preprocess_features and analyze_risk_factors applied to  *)
(*                every record of a bounded set of applicant records;      *)
(*   SpecScore    the probability -> score -> risk level mapping of        *)
(*                predict_credit_score and get_risk_level.                 *)
(*                                                                         *)
(* Numbers: Python floats are modelled by exact integers and rationals     *)
(* (a probability is a numerator over ProbaDen, a ratio comparison is      *)
(* cross-multiplied); rounding below one ulp is not modelled.              *)
(***************************************************************************)
EXTENDS Integers, Sequences, FiniteSets, TLC

VARIABLES
    \* ---- Spec: model store and scoring service
    disk,        \* the two artifact files, by path
    pc,          \* position of every actor (scoring calls and the script)
    rec,         \* scoring call -> the record it is scoring
    mem,         \* actor -> its local variables model, scaler
    hist,        \* actor -> what it has done so far
    response,    \* scoring call -> its HTTP response
    diskLoads,   \* joblib.load reads of the pair since the last training run
    coldRuns,    \* training runs started by load_model
    ioFailed,    \* whether some artifact write has failed
    \* ---- SpecRecord: preprocess_features / analyze_risk_factors
    data,        \* the applicant record (dict)
    features,    \* result of preprocess_features
    factors,     \* result of analyze_risk_factors
    extra,       \* the features / importance arguments handed to the analyzer
    astage,
    \* ---- SpecScore: score and risk level
    proba,       \* predict_proba row <<P(good), P(bad)>>, numerators over ProbaDen
    score,
    risk_level,  \* computed inline by predict_credit_score
    bucket,      \* computed by get_risk_level
    sstage

storeVars == <<disk, pc, rec, mem, hist, response, diskLoads, coldRuns, ioFailed>>
recordVars == <<data, features, factors, extra, astage>>
scoreVars == <<proba, score, risk_level, bucket, sstage>>
vars == <<storeVars, recordVars, scoreVars>>

\* ------------------------------------------------------------------ bounds

\* scoring calls (POST /score requests) in the lifetime of the server process
NumCalls == 2
\* denominator of the probability grid: P(good) = n / ProbaDen
ProbaDen == 200
\* largest late_payments / previous_loans count of the record set
MaxLate == 3
MaxLoans == 6

\* ------------------------------------------------------------ pure helpers

Range(s) == {s[i] : i \in 1..Len(s)}

\* Python int(x) of the rational n/d (d > 0): truncation toward zero
PyInt(n, d) == IF n >= 0 THEN n \div d ELSE -((-n) \div d)

\* str.lower() on the marital status strings of the record set
Lower(s) ==
    CASE s = "Casado" -> "casado"
      [] s = "MARRIED" -> "married"
      [] s = "Soltero" -> "soltero"
      [] OTHER -> s

\* an optional field of the dict: key absent, key present with None, or a number
Absent == [kind |-> "absent", v |-> 0]
None == [kind |-> "none", v |-> 0]
Num(n) == [kind |-> "num", v |-> n]

\* data.get(key, 0): the default only replaces an absent key
DictGet(field, default) == IF field.kind = "absent" THEN Num(default) ELSE field

\* float(x): raises TypeError on None
FloatRaises(x) == x.kind = "none"

\* ------------------------------------------------- scoring.py: preprocess_features

preprocess_features(d) ==
    LET marital_encoded ==
            IF Lower(d.marital_status) \in {"casado", "married"} THEN 1 ELSE 0
        active_debts == IF d.active_debts THEN 1 ELSE 0
        active_cards == IF d.active_credit_cards THEN 1 ELSE 0
        delay == DictGet(d.payment_delay, 0)
        balance == DictGet(d.average_balance, 0)
    IN  IF FloatRaises(delay) \/ FloatRaises(balance)
        THEN [raised |-> TRUE, value |-> <<>>]
        ELSE [raised |-> FALSE,
              value |-> <<d.age, d.monthly_income, d.monthly_expense,
                          d.debt_percentage, d.previous_loans, d.late_payments,
                          marital_encoded, active_debts, active_cards,
                          delay.v, balance.v>>]

\* ------------------------------------------------ scoring.py: analyze_risk_factors

MsgRatioGood == "Relacion ingresos/gastos saludable"
MsgRatioBad == "Gastos muy altos en relacion a ingresos"
MsgDebtLow == "Bajo nivel de endeudamiento"
MsgDebtHigh == "Alto nivel de endeudamiento"
MsgPayPerfect == "Historial de pagos perfecto"
MsgPayLate == "Multiples retrasos en pagos"
MsgAgeOptimal == "Edad en rango optimo para credito"
MsgAgeYoung == "Edad joven - historial crediticio limitado"
MsgLoansMany == "Demasiados prestamos anteriores"
MsgLoansModerate == "Experiencia crediticia moderada"

\* income / expense > n/d and < n/d, for expense > 0 and d > 0
RatioGT(income, expense, n, d) == income * d > n * expense
RatioLT(income, expense, n, d) == income * d < n * expense

\* factors[key].append(msg)
Append1(fs, key, msg) == [fs EXCEPT ![key] = Append(@, msg)]

\* variant: the last elif tests only the upper end of the 1..3 range
analyze_risk_factors_loose(d, feats, importance) ==
    LET f0 == [positive |-> <<>>, negative |-> <<>>, neutral |-> <<>>]
        f1 == IF RatioGT(d.monthly_income, d.monthly_expense, 3, 2)
              THEN Append1(f0, "positive", MsgRatioGood)
              ELSE IF RatioLT(d.monthly_income, d.monthly_expense, 6, 5)
              THEN Append1(f0, "negative", MsgRatioBad)
              ELSE f0
        f2 == IF d.debt_percentage < 30
              THEN Append1(f1, "positive", MsgDebtLow)
              ELSE IF d.debt_percentage > 60
              THEN Append1(f1, "negative", MsgDebtHigh)
              ELSE f1
        f3 == IF d.late_payments = 0
              THEN Append1(f2, "positive", MsgPayPerfect)
              ELSE IF d.late_payments > 2
              THEN Append1(f2, "negative", MsgPayLate)
              ELSE f2
        f4 == IF 25 <= d.age /\ d.age <= 55
              THEN Append1(f3, "positive", MsgAgeOptimal)
              ELSE IF d.age < 25
              THEN Append1(f3, "neutral", MsgAgeYoung)
              ELSE f3
        f5 == IF d.previous_loans > 5
              THEN Append1(f4, "negative", MsgLoansMany)
              ELSE IF d.previous_loans <= 3
              THEN Append1(f4, "positive", MsgLoansModerate)
              ELSE f4
    IN  f5

analyze_risk_factors(d, feats, importance) ==
    LET f0 == [positive |-> <<>>, negative |-> <<>>, neutral |-> <<>>]
        \* income_expense_ratio = monthly_income / monthly_expense
        f1 == IF RatioGT(d.monthly_income, d.monthly_expense, 3, 2)
              THEN Append1(f0, "positive", MsgRatioGood)
              ELSE IF RatioLT(d.monthly_income, d.monthly_expense, 6, 5)
              THEN Append1(f0, "negative", MsgRatioBad)
              ELSE f0
        f2 == IF d.debt_percentage < 30
              THEN Append1(f1, "positive", MsgDebtLow)
              ELSE IF d.debt_percentage > 60
              THEN Append1(f1, "negative", MsgDebtHigh)
              ELSE f1
        f3 == IF d.late_payments = 0
              THEN Append1(f2, "positive", MsgPayPerfect)
              ELSE IF d.late_payments > 2
              THEN Append1(f2, "negative", MsgPayLate)
              ELSE f2
        f4 == IF 25 <= d.age /\ d.age <= 55
              THEN Append1(f3, "positive", MsgAgeOptimal)
              ELSE IF d.age < 25
              THEN Append1(f3, "neutral", MsgAgeYoung)
              ELSE f3
        f5 == IF d.previous_loans > 5
              THEN Append1(f4, "negative", MsgLoansMany)
              ELSE IF 1 <= d.previous_loans /\ d.previous_loans <= 3
              THEN Append1(f4, "positive", MsgLoansModerate)
              ELSE f4
    IN  f5

\* ------------------------------------- scoring.py: score and risk level

\* variant: the row read at the bad-credit class
GoodCreditProbBadClass(row) == row[2]

\* good_credit_prob = proba[0] (sequences are 1-based here)
GoodCreditProb(row) == row[1]

\* score = int(good_credit_prob * 100)
ScoreOf(row) == PyInt(GoodCreditProb(row) * 100, ProbaDen)

\* variant: strict comparisons at the two thresholds
InlineRiskLevelStrict(s) ==
    IF s < 40 THEN "riesgo alto"
    ELSE IF s < 70 THEN "riesgo medio"
    ELSE "bajo riesgo"

\* the if / elif / else of predict_credit_score

InlineRiskLevel(s) ==
    IF s <= 40 THEN "riesgo alto"
    ELSE IF s <= 70 THEN "riesgo medio"
    ELSE "bajo riesgo"

get_risk_level(s) ==
    IF s <= 40 THEN "riesgo alto"
    ELSE IF s <= 70 THEN "riesgo medio"
    ELSE "bajo riesgo"

\* ------------------------------------------------------------ record sets

\* the applicant of the spec's first example; the other records vary its fields
BaseRecord ==
    [age |-> 30, monthly_income |-> 3000, monthly_expense |-> 1200,
     debt_percentage |-> 20, previous_loans |-> 2, late_payments |-> 0,
     marital_status |-> "casado", active_debts |-> FALSE,
     active_credit_cards |-> TRUE,
     payment_delay |-> Num(0), average_balance |-> Num(0)]

\* values on both sides of every threshold of the rule table
Ages == {17, 24, 25, 55, 56}
Expenses == {5, 10}
Incomes == {6, 7, 8, 11, 12, 13, 15, 16}
DebtPercentages == {0, 29, 30, 60, 61}

\* records that vary the fields the analyzer reads
AnalysisRecords ==
    {[BaseRecord EXCEPT !.age = a, !.monthly_income = i, !.monthly_expense = e,
                        !.debt_percentage = dp, !.late_payments = lp,
                        !.previous_loans = pl] :
        a \in Ages, i \in Incomes, e \in Expenses, dp \in DebtPercentages,
        lp \in 0..MaxLate, pl \in 0..MaxLoans}

\* records that vary the fields only the preprocessor reads
EncodingRecords ==
    {[BaseRecord EXCEPT !.marital_status = ms, !.active_debts = ad,
                        !.active_credit_cards = ac,
                        !.payment_delay = pd, !.average_balance = ab] :
        ms \in {"casado", "Casado", "MARRIED", "Soltero", "viudo"},
        ad \in BOOLEAN, ac \in BOOLEAN,
        pd \in {Absent, None, Num(0), Num(5)},
        ab \in {Absent, None, Num(0), Num(900)}}

Records == AnalysisRecords \cup EncodingRecords

\* model.feature_importances_ zipped with the feature names: opaque to the analyzer
Importances == {"uniform", "debt_heavy"}

NoFactors == [positive |-> <<>>, negative |-> <<>>, neutral |-> <<>>]
NotEncoded == [raised |-> FALSE, value |-> <<>>]

\* ------------------------------------------------------------- model store

MODEL_PATH == "credit_model.pkl"
SCALER_PATH == "scaler.pkl"

Calls == 1..NumCalls
\* train_model.py, run by hand or by start.py
Script == 0
Actors == Calls \cup {Script}

\* content of an artifact file, or of a local variable holding a loaded artifact
NoFile == [st |-> "absent", run |-> 0]
Partial == [st |-> "corrupt", run |-> 0]
Artifact(r) == [st |-> "ok", run |-> r]

\* training runs: the one whose pair an earlier process left behind, and the one
\* each actor executes (an actor calls train_model at most once)
PreviousRun == 1
RunOf(a) == a + 2

\* os.path.exists(path)
PathExists(d, path) == d[path].st # "absent"

\* variant: the second test of the condition dropped, as in start.py
ScalerExistsUnchecked(d) == TRUE

\* the second operand of the condition of load_model
ScalerExists(d) == PathExists(d, SCALER_PATH)

\* joblib.load(path) raises on a missing or truncated file
LoadRaises(d, path) == d[path].st # "ok"

\* joblib.dump(obj, path): opens the file for writing in place and pickles into
\* it; a failure leaves the file as it was (the open failed) or truncated
WriteOutcomes == {"ok", "fail_unchanged", "fail_partial"}
joblib_dump(d, path, blob, outcome) ==
    CASE outcome = "ok" -> [d EXCEPT ![path] = blob]
      [] outcome = "fail_unchanged" -> d
      [] outcome = "fail_partial" -> [d EXCEPT ![path] = Partial]

\* the history counters distinguish zero, one and more than one
Count(n) == IF n < 2 THEN n + 1 ELSE n

NoPair == [model |-> NoFile, scaler |-> NoFile]
NoHist == [checked |-> "none", trains |-> 0, writes |-> 0, trainFailed |-> FALSE,
           hadPair |-> FALSE]

\* both files hold the artifacts of one training run
ValidPair(d) ==
    /\ d[MODEL_PATH].st = "ok"
    /\ d[SCALER_PATH] = d[MODEL_PATH]

\* what the artifact files can hold when the program starts: nothing, the pair of
\* an earlier training run, or only the model of a run whose second write failed
InitialDisks ==
    {[p \in {MODEL_PATH, SCALER_PATH} |-> NoFile],
     [p \in {MODEL_PATH, SCALER_PATH} |-> Artifact(PreviousRun)],
     [p \in {MODEL_PATH, SCALER_PATH} |->
         IF p = MODEL_PATH THEN Artifact(PreviousRun) ELSE NoFile]}
NoResponse == [status |-> 0, score |-> -1, risk_level |-> "", factors |-> NoFactors]

\* records the service is asked to score in Spec: one the core scores and one per
\* business rule of main.py (SpecRecord runs the core on the whole record set)
OverspentRecord == [BaseRecord EXCEPT !.monthly_expense = 3000]
MinorRecord == [BaseRecord EXCEPT !.age = 17]
StoreRecords == {BaseRecord, OverspentRecord, MinorRecord}

\* good-credit probabilities the classifier answers with in Spec
StoreProbas == {0, ProbaDen}

\* main.py: the business rules checked before the core is called
BusinessRuleRejects(r) == r.monthly_expense >= r.monthly_income \/ r.age < 18

\* variant: the handler answers 200 with an empty result when the core raised
HttpResponseSwallow(raised, result) ==
    IF raised THEN [NoResponse EXCEPT !.status = 200, !.score = 0,
                                      !.risk_level = "riesgo alto"]
    ELSE [result EXCEPT !.status = 200]

\* main.py: the response built from the core's result, or the 500 of the handler
HttpResponse(raised, result) ==
    IF raised THEN [NoResponse EXCEPT !.status = 500]
    ELSE [result EXCEPT !.status = 200]

\* predict_credit_score after load_model returned: lines 135-167
ScoreResult(r, n) ==
    LET fv == preprocess_features(r)
        row == <<n, ProbaDen - n>>
        s == ScoreOf(row)
    IN  [raised |-> fv.raised,
         result |-> IF fv.raised THEN NoResponse
                    ELSE [status |-> 0, score |-> s,
                          risk_level |-> InlineRiskLevel(s),
                          factors |-> analyze_risk_factors(r, fv.value, "uniform")]]

StoreInit ==
    /\ disk \in InitialDisks
    /\ pc = [a \in Actors |-> "idle"]
    /\ rec = [c \in Calls |-> BaseRecord]
    /\ mem = [a \in Actors |-> NoPair]
    /\ hist = [a \in Actors |-> NoHist]
    /\ response = [c \in Calls |-> NoResponse]
    /\ diskLoads = 0
    /\ coldRuns = 0
    /\ ioFailed = FALSE

\* the store while SpecRecord or SpecScore runs
StoreParked ==
    /\ StoreInit
    /\ disk = [p \in {MODEL_PATH, SCALER_PATH} |-> NoFile]

RecordParked ==
    /\ data = BaseRecord
    /\ features = NotEncoded
    /\ factors = NoFactors
    /\ extra = "uniform"
    /\ astage = "parked"

ScoreParked ==
    /\ proba = <<0, ProbaDen>>
    /\ score = -1
    /\ risk_level = ""
    /\ bucket = ""
    /\ sstage = "parked"

\* ---- main.py: calculate_credit_score, up to the call of predict_credit_score
Request(c, r) ==
    /\ pc[c] = "idle"
    /\ hist' = hist
    /\ IF BusinessRuleRejects(r)
       THEN /\ pc' = [pc EXCEPT ![c] = "responded"]
            /\ response' = [response EXCEPT ![c] = [NoResponse EXCEPT !.status = 400]]
            /\ rec' = rec
       ELSE /\ pc' = [pc EXCEPT ![c] = "exists_model"]
            /\ response' = [response EXCEPT ![c] = NoResponse]
            /\ rec' = [rec EXCEPT ![c] = r]
    /\ UNCHANGED <<disk, mem, diskLoads, coldRuns, ioFailed,
                   recordVars, scoreVars>>

\* ---- load_model: os.path.exists(MODEL_PATH)
ExistsModel(c) ==
    /\ pc[c] = "exists_model"
    /\ IF PathExists(disk, MODEL_PATH)
       THEN /\ pc' = [pc EXCEPT ![c] = "exists_scaler"]
            /\ hist' = hist
       ELSE /\ pc' = [pc EXCEPT ![c] = "train"]
            /\ hist' = [hist EXCEPT ![c].checked = "missing"]
    /\ UNCHANGED <<disk, rec, mem, response, diskLoads,
                   coldRuns, ioFailed,
                   recordVars, scoreVars>>

\* ---- load_model: ... and os.path.exists(SCALER_PATH)
ExistsScaler(c) ==
    /\ pc[c] = "exists_scaler"
    /\ pc' = [pc EXCEPT ![c] = IF ScalerExists(disk) THEN "load_model" ELSE "train"]
    /\ hist' = [hist EXCEPT ![c].checked =
                    IF PathExists(disk, MODEL_PATH) /\ PathExists(disk, SCALER_PATH)
                    THEN "present" ELSE "missing"]
    /\ UNCHANGED <<disk, rec, mem, response, diskLoads,
                   coldRuns, ioFailed,
                   recordVars, scoreVars>>

\* ---- load_model: model = joblib.load(MODEL_PATH)
LoadModel(c) ==
    /\ pc[c] = "load_model"
    /\ diskLoads' = Count(diskLoads)
    /\ IF LoadRaises(disk, MODEL_PATH)
       THEN /\ pc' = [pc EXCEPT ![c] = "raised"]
            /\ mem' = mem
       ELSE /\ pc' = [pc EXCEPT ![c] = "load_scaler"]
            /\ mem' = [mem EXCEPT ![c].model = disk[MODEL_PATH]]
    /\ UNCHANGED <<disk, rec, hist, response, coldRuns,
                   ioFailed,
                   recordVars, scoreVars>>

\* ---- load_model: scaler = joblib.load(SCALER_PATH); return model, scaler
LoadScaler(c) ==
    /\ pc[c] = "load_scaler"
    /\ IF LoadRaises(disk, SCALER_PATH)
       THEN /\ pc' = [pc EXCEPT ![c] = "raised"]
            /\ mem' = mem
       ELSE /\ pc' = [pc EXCEPT ![c] = "loaded"]
            /\ mem' = [mem EXCEPT ![c].scaler = disk[SCALER_PATH]]
    /\ UNCHANGED <<disk, rec, hist, response, diskLoads,
                   coldRuns, ioFailed,
                   recordVars, scoreVars>>

\* ---- train_model: create the corpus, fit the scaler and the classifier
Train(a) ==
    /\ pc[a] = "train"
    /\ pc' = [pc EXCEPT ![a] = "dump_model"]
    /\ mem' = [mem EXCEPT ![a] = [model |-> Artifact(RunOf(a)),
                                  scaler |-> Artifact(RunOf(a))]]
    /\ diskLoads' = 0
    /\ hist' = [hist EXCEPT ![a].trains = @ + 1, ![a].hadPair = ValidPair(disk)]
    /\ coldRuns' = IF a \in Calls THEN Count(coldRuns) ELSE coldRuns
    /\ UNCHANGED <<disk, rec, response, ioFailed,
                   recordVars, scoreVars>>

\* where an actor goes when train_model raises: the request's handler, or sys.exit(1)
AfterRaise(a) == IF a \in Calls THEN "raised" ELSE "exited"

\* ---- train_model: joblib.dump(model, MODEL_PATH)
DumpModel(a, outcome) ==
    /\ pc[a] = "dump_model"
    /\ disk' = joblib_dump(disk, MODEL_PATH, mem[a].model, outcome)
    /\ IF outcome = "ok"
       THEN /\ pc' = [pc EXCEPT ![a] = "dump_scaler"]
            /\ ioFailed' = ioFailed
            /\ hist' = [hist EXCEPT ![a].writes = @ + 1]
       ELSE /\ pc' = [pc EXCEPT ![a] = AfterRaise(a)]
            /\ ioFailed' = TRUE
            /\ hist' = [hist EXCEPT ![a].trainFailed = TRUE]
    /\ UNCHANGED <<rec, mem, response, diskLoads, coldRuns,
                   recordVars, scoreVars>>

\* ---- train_model: joblib.dump(scaler, SCALER_PATH); return model, scaler
DumpScaler(a, outcome) ==
    /\ pc[a] = "dump_scaler"
    /\ disk' = joblib_dump(disk, SCALER_PATH, mem[a].scaler, outcome)
    /\ IF outcome = "ok"
       THEN /\ pc' = [pc EXCEPT ![a] = IF a \in Calls THEN "loaded" ELSE "exited"]
            /\ ioFailed' = ioFailed
            /\ hist' = [hist EXCEPT ![a].writes = @ + 1]
       ELSE /\ pc' = [pc EXCEPT ![a] = AfterRaise(a)]
            /\ ioFailed' = TRUE
            /\ hist' = [hist EXCEPT ![a].trainFailed = TRUE]
    /\ UNCHANGED <<rec, mem, response, diskLoads, coldRuns,
                   recordVars, scoreVars>>

\* ---- predict_credit_score after load_model returned, and the response of main.py
Score(c, n) ==
    /\ pc[c] = "loaded"
    /\ LET out == ScoreResult(rec[c], n)
       IN  response' = [response EXCEPT ![c] = HttpResponse(out.raised, out.result)]
    /\ pc' = [pc EXCEPT ![c] = "responded"]
    /\ rec' = [rec EXCEPT ![c] = BaseRecord]
    /\ mem' = [mem EXCEPT ![c] = NoPair]
    /\ UNCHANGED <<disk, hist, diskLoads, coldRuns, ioFailed,
                   recordVars, scoreVars>>

\* ---- main.py: the except clause of the handler, load_model having raised
Respond(c) ==
    /\ pc[c] = "raised"
    /\ pc' = [pc EXCEPT ![c] = "responded"]
    /\ response' = [response EXCEPT ![c] = HttpResponse(TRUE, @)]
    /\ rec' = [rec EXCEPT ![c] = BaseRecord]
    /\ mem' = [mem EXCEPT ![c] = NoPair]
    /\ UNCHANGED <<disk, hist, diskLoads, coldRuns, ioFailed,
                   recordVars, scoreVars>>

\* ---- the response is sent and the call is over
Finish(c) ==
    /\ pc[c] = "responded"
    /\ pc' = [pc EXCEPT ![c] = "done"]
    /\ hist' = [hist EXCEPT ![c] = NoHist]
    /\ response' = [response EXCEPT ![c] = NoResponse]
    /\ UNCHANGED <<disk, rec, mem, diskLoads, coldRuns, ioFailed,
                   recordVars, scoreVars>>

\* ---- start.py: train only when credit_model.pkl does not exist
StartPy ==
    /\ pc[Script] = "idle"
    /\ pc' = [pc EXCEPT ![Script] =
                 IF ~PathExists(disk, MODEL_PATH) THEN "train" ELSE "exited"]
    /\ UNCHANGED <<disk, rec, mem, hist, response, diskLoads, coldRuns, ioFailed,
                   recordVars, scoreVars>>

\* ---- train_model.py run by hand: an explicit retrain
RunTrainScript ==
    /\ pc[Script] = "idle"
    /\ pc' = [pc EXCEPT ![Script] = "train"]
    /\ UNCHANGED <<disk, rec, mem, hist, response, diskLoads, coldRuns, ioFailed,
                   recordVars, scoreVars>>

Next ==
    \/ \E c \in Calls, r \in StoreRecords : Request(c, r)
    \/ \E c \in Calls : ExistsModel(c)
    \/ \E c \in Calls : ExistsScaler(c)
    \/ \E c \in Calls : LoadModel(c)
    \/ \E c \in Calls : LoadScaler(c)
    \/ \E a \in Actors : Train(a)
    \/ \E a \in Actors, o \in WriteOutcomes : DumpModel(a, o)
    \/ \E a \in Actors, o \in WriteOutcomes : DumpScaler(a, o)
    \/ \E c \in Calls, n \in StoreProbas : Score(c, n)
    \/ \E c \in Calls : Respond(c)
    \/ \E c \in Calls : Finish(c)
    \/ StartPy
    \/ RunTrainScript

Init == StoreInit /\ RecordParked /\ ScoreParked

Spec == Init /\ [][Next]_vars

\* ------------------------------------------------- SpecRecord

RecordInit ==
    /\ data \in Records
    /\ features = NotEncoded
    /\ factors = NoFactors
    /\ extra = "uniform"
    /\ astage = "input"

\* features = preprocess_features(data)
Preprocess ==
    /\ astage = "input"
    /\ features' = preprocess_features(data)
    /\ astage' = IF features'.raised THEN "raised" ELSE "encoded"
    /\ UNCHANGED <<data, factors, extra, storeVars, scoreVars>>

\* factors = analyze_risk_factors(data, features, feature_impact)
Analyze(imp) ==
    /\ astage \in {"input", "encoded"}
    /\ factors' = analyze_risk_factors(data, features.value, imp)
    /\ extra' = imp
    /\ astage' = "analyzed"
    /\ UNCHANGED <<data, features, storeVars, scoreVars>>

RecordNext ==
    \/ Preprocess
    \/ \E imp \in Importances : Analyze(imp)

InitRecord == StoreParked /\ RecordInit /\ ScoreParked

SpecRecord == InitRecord /\ [][RecordNext]_vars

\* ------------------------------------------------- SpecScore

ScoreInit ==
    /\ proba \in {<<n, ProbaDen - n>> : n \in 0..ProbaDen}
    /\ score = -1
    /\ risk_level = ""
    /\ bucket = ""
    /\ sstage = "input"

\* predict_credit_score lines 139-151
Predict ==
    /\ sstage = "input"
    /\ score' = ScoreOf(proba)
    /\ risk_level' = InlineRiskLevel(score')
    /\ sstage' = "scored"
    /\ UNCHANGED <<proba, bucket, storeVars, recordVars>>

\* get_risk_level(score)
GetRiskLevel ==
    /\ sstage = "scored"
    /\ bucket' = get_risk_level(score)
    /\ sstage' = "bucketed"
    /\ UNCHANGED <<proba, score, risk_level, storeVars, recordVars>>

ScoreNext ==
    \/ Predict
    \/ GetRiskLevel

InitScore == StoreParked /\ RecordParked /\ ScoreInit

SpecScore == InitScore /\ [][ScoreNext]_vars

\* ------------------------------------------------------------------ claims

\* C1 (cold-start single flight): as long as no artifact write has failed, the
\* scoring calls start at most one training run in total; the calls that find an
\* artifact missing while a run is under way wait for it instead of training.
C1_SingleFlight == ~ioFailed => coldRuns <= 1

\* C2 (coupled pair): the (model, scaler) pair load_model returns to a scoring
\* call holds two artifacts of the same training run.
C2_CoupledPair ==
    \A c \in Calls :
        pc[c] = "loaded" => mem[c].model.run = mem[c].scaler.run

\* C3 (atomic persistence): a training run that started on a valid pair and
\* failed while writing leaves the store as it was before the run: neither file
\* holds an artifact of the failed run and neither file is truncated.
C3_AtomicPersistence ==
    \A a \in Actors :
        (hist[a].trainFailed /\ hist[a].hadPair) =>
            \A path \in {MODEL_PATH, SCALER_PATH} :
                /\ disk[path] # Artifact(RunOf(a))
                /\ disk[path] # Partial

\* C4 (lazy training on load): a load_model that finds an artifact missing runs
\* train_model, and when it returns both files exist, both writes were made and
\* the returned pair is the one just trained; a load_model that finds both
\* artifacts present trains nothing and writes nothing.
C4_LazyTraining ==
    \A c \in Calls :
        /\ hist[c].checked = "missing" => (pc[c] = "train" \/ hist[c].trains = 1)
        /\ hist[c].checked = "present" => (hist[c].trains = 0 /\ hist[c].writes = 0)
        /\ pc[c] = "loaded" => hist[c].checked # "none"
        /\ (pc[c] = "loaded" /\ hist[c].checked = "missing") =>
               /\ hist[c].writes = 2
               /\ mem[c] = [model |-> Artifact(RunOf(c)), scaler |-> Artifact(RunOf(c))]
               /\ PathExists(disk, MODEL_PATH)
               /\ PathExists(disk, SCALER_PATH)

\* a scoring call found an artifact missing, trained, and load_model returned
C4_Witness ==
    \E c \in Calls :
        /\ pc[c] = "loaded"
        /\ hist[c].checked = "missing"
        /\ hist[c].writes = 2
        /\ disk[MODEL_PATH] = Artifact(RunOf(c))

\* C5 (load once, reuse): between two training runs the process reads the pair
\* from storage at most once.
C5_LoadOnce == diskLoads <= 1

\* the threshold table of the risk levels
BucketMatches(level, s) ==
    /\ level = "riesgo alto" <=> s <= 40
    /\ level = "riesgo medio" <=> (41 <= s /\ s <= 70)
    /\ level = "bajo riesgo" <=> s > 70

\* C6 (risk bucket): the risk level of predict_credit_score and of
\* get_risk_level is "riesgo alto" iff score <= 40, "riesgo medio" iff
\* 41 <= score <= 70 and "bajo riesgo" iff score > 70.
C6_RiskBucket ==
    /\ sstage \in {"scored", "bucketed"} => BucketMatches(risk_level, score)
    /\ sstage = "bucketed" => BucketMatches(bucket, score)

\* the boundary 41 -> medio, by both functions
C6_Witness ==
    /\ sstage = "bucketed"
    /\ score = 41
    /\ risk_level = "riesgo medio"
    /\ bucket = "riesgo medio"

\* the ten rows of the rule table, each on its own
Row(cond, b, m) == IF cond THEN {<<b, m>>} ELSE {}

RuleTable(d) ==
    Row(2 * d.monthly_income > 3 * d.monthly_expense, "positive", MsgRatioGood)
    \cup Row(5 * d.monthly_income < 6 * d.monthly_expense, "negative", MsgRatioBad)
    \cup Row(d.debt_percentage < 30, "positive", MsgDebtLow)
    \cup Row(d.debt_percentage > 60, "negative", MsgDebtHigh)
    \cup Row(d.late_payments = 0, "positive", MsgPayPerfect)
    \cup Row(d.late_payments > 2, "negative", MsgPayLate)
    \cup Row(25 <= d.age /\ d.age <= 55, "positive", MsgAgeOptimal)
    \cup Row(d.age < 25, "neutral", MsgAgeYoung)
    \cup Row(d.previous_loans > 5, "negative", MsgLoansMany)
    \cup Row(1 <= d.previous_loans /\ d.previous_loans <= 3, "positive", MsgLoansModerate)

\* C7 (rule table): analyze_risk_factors puts a message in a bucket exactly when
\* its row of the rule table holds, each row on its own, and nothing else,
\* whatever the features and importance arguments are.
C7_RuleTable ==
    astage = "analyzed" =>
        \A b \in {"positive", "negative", "neutral"} :
            /\ Range(factors[b]) = {row[2] : row \in {x \in RuleTable(data) : x[1] = b}}
            /\ Len(factors[b]) = Cardinality(Range(factors[b]))

\* the spec's second example, with rows of all three buckets and none positive
C7_Witness ==
    /\ astage = "analyzed"
    /\ extra = "debt_heavy"
    /\ data.age = 24 /\ data.debt_percentage = 61
    /\ data.late_payments = 3 /\ data.previous_loans = 6
    /\ factors.positive = <<>>
    /\ factors.negative = <<MsgRatioBad, MsgDebtHigh, MsgPayLate, MsgLoansMany>>
    /\ factors.neutral = <<MsgAgeYoung>>

\* C8 (score range): the score is floor(p * 100) for the good-credit probability
\* p = proba[1] / ProbaDen, and lies in 0..100.
C8_ScoreRange ==
    sstage \in {"scored", "bucketed"} =>
        /\ score \in 0..100
        /\ score * ProbaDen <= 100 * proba[1]
        /\ 100 * proba[1] < (score + 1) * ProbaDen

\* p = 0.415: p * 100 is no integer
C8_Witness ==
    /\ sstage = "scored"
    /\ 1000 * proba[1] = 415 * ProbaDen
    /\ score = 41

\* an optional field that is absent or null is encoded as 0
OptionalEncoded(field, x) == field.kind # "num" => x = 0

\* C9 (no failure on valid input): preprocess_features returns an 11-element
\* vector for every record, with 0 for an optional field that is absent or null.
C9_NoFailure ==
    /\ astage # "raised"
    /\ astage = "encoded" =>
           /\ Len(features.value) = 11
           /\ OptionalEncoded(data.payment_delay, features.value[10])
           /\ OptionalEncoded(data.average_balance, features.value[11])

\* C10 (cold-start failure surfaced, not retried): a scoring call whose training
\* failed answers its caller with an error and no score, risk level or factors,
\* and has called train_model once.
C10_FailureSurfaced ==
    \A c \in Calls :
        /\ hist[c].trains <= 1
        /\ hist[c].trainFailed =>
               /\ hist[c].trains = 1
               /\ pc[c] \in {"raised", "responded"}
               /\ pc[c] = "responded" =>
                      /\ response[c].status = 500
                      /\ response[c].score = -1
                      /\ response[c].risk_level = ""
                      /\ response[c].factors = NoFactors

\* the second write of a cold-start training failed and the call has answered
C10_Witness ==
    \E c \in Calls :
        /\ pc[c] = "responded"
        /\ hist[c].trainFailed
        /\ hist[c].writes = 1
        /\ response[c].status = 500

====
